---- MODULE Spec2Model ----
(***************************************************************************)
(* Batch-analysis job pipeline of WebGuardAI (api-backend.py).             *)
(*                                                                         *)
(* The HTTP handlers run as coroutines on one asyncio event loop: a        *)
(* coroutine runs without interruption from one await that really          *)
(* suspends to the next.  The only suspension points of a batch task are   *)
(* the crawl of a URL (spider.crawl_single_url) and the callback           *)
(* delivery (send_callback), so one action of this model is the code that  *)
(* runs between two of them.                                               *)
(*                                                                         *)
(* The threat-scoring fusion (threat-detection.py, predict_threat) is a    *)
(* pure function of the three component scores and the configured weights; *)
(* FusionSpec applies it to every input of a bounded set.                  *)
(***************************************************************************)
EXTENDS Integers, Sequences, FiniteSets, TLC

\* ---- bounds of the model ----
MaxJobs == 2
MaxUrls == 3
MaxClock == 1
TicksPerSecond == 2

\* batch sizes explored when more than one job is submitted
ConcurrentBatchSizes == {0, 1}

\* width of the value hash() returns, scaled down
HashRange == 16

\* HttpUrl values of the requests
Urls == {"a.example", "b.example"}

\* Optional[HttpUrl]: callback_url = None when the request names none
None == "None"
CallbackUrls == {None, "hook.example"}

\* The step of analyze_url that raises, "none" when every step succeeds.
Faults == {"none", "crawl", "extract", "predict", "store"}

\* Ways the awaited callback delivery ends.
Deliveries == {"success", "failure", "exception"}

\* Floats in fixed point: a component score or a weight f is the integer
\* f * Unit; a weighted sum of scores, and a confidence, is in units of
\* 1 / ScoreUnit.
Unit == 10
ScoreUnit == Unit * Unit

\* the thresholds 0.2, 0.5, 0.8 of get_threat_level, in units of 1/ScoreUnit
LowBelow == 20
MediumBelow == 50
HighBelow == 80

\* the component scores: every multiple of 1/Unit in [0, 1]
ComponentScores == 0..Unit
SignalSets ==
    [text : ComponentScores, anomaly : ComponentScores, rules : ComponentScores]

\* config['weights'] of the model configuration: weights that sum to 1,
\* to more than 1, to less, and a negative one
WeightConfigs ==
    { [text |-> 5, anomaly |-> 3, rules |-> 2],
      [text |-> 4, anomaly |-> 4, rules |-> 2],
      [text |-> 10, anomaly |-> 10, rules |-> 10],
      [text |-> 0, anomaly |-> 0, rules |-> 0],
      [text |-> -5, anomaly |-> 3, rules |-> 2] }

\* no analysis computed yet
NoAnalysis == [threat_level |-> "none"]

VARIABLES
    now,            \* the latest reading of datetime.utcnow(), in clock ticks
    tasks,          \* the batch jobs submitted so far, in submission order
    batch_results,  \* the job store: job id -> stored results
    signals,        \* the three component scores of the features analysed
    weights,        \* self.config['weights'] of the ThreatDetectionModel
    analysis        \* what predict_threat returned, NoAnalysis before

pipeline == <<now, tasks, batch_results>>
fusion == <<signals, weights, analysis>>
vars == <<now, tasks, batch_results, signals, weights, analysis>>

\* ---- pure helpers ----

\* all sequences over S of length 0..n
SeqsUpTo(S, n) == UNION {[1..k -> S] : k \in 0..n}

\* number of positions of seq whose value is v
Count(seq, v) == Cardinality({i \in DOMAIN seq : seq[i] = v})

\* the sum of a sequence of integers
RECURSIVE SumSeq(_)
SumSeq(seq) == IF seq = <<>> THEN 0 ELSE Head(seq) + SumSeq(Tail(seq))

\* the integer part of the square root of n >= 0
ISqrt(n) == CHOOSE r \in 0..(n + 1) : r * r <= n /\ n < (r + 1) * (r + 1)

\* strftime('%Y%m%d%H%M%S-'): the reading truncated to whole seconds
FormatSeconds(t) == t \div TicksPerSecond

\* hash(datetime): a fixed function of the reading
HashOf(t) == t % HashRange

\* generate_job_id: two readings of the clock, t1 formatted, t2 hashed
generate_job_id(t1, t2) == <<FormatSeconds(t1), HashOf(t2)>>

\* analyze_url: the steps run in order crawl, extract, predict, store; the
\* first one that raises is caught and re-raised as HTTPException(500).
analyze_url(url, fault) ==
    IF fault = "none"
    THEN [raised |-> FALSE, url |-> url, detail |-> "none"]
    ELSE [raised |-> TRUE, url |-> url, detail |-> fault]

\* the entry process_url_batch appends for one URL: the response of
\* analyze_url, or {"url", "error"} when it raised
ResultEntry(url, fault) ==
    LET r == analyze_url(url, fault)
    IN  IF r.raised
        THEN [url |-> url, kind |-> "error", error |-> r.detail]
        ELSE [url |-> url, kind |-> "verdict", error |-> "none"]

\* faulty variant: the results kept in a mapping keyed by URL: a later entry for a
\* URL replaces the earlier one
RecordResult_KeyedByUrl(results, entry) ==
    Append(SelectSeq(results, LAMBDA e : e.url # entry.url), entry)

\* results.append(...)
RecordResult(results, entry) == Append(results, entry)

\* The loop `for url in urls: await analyze_url(...)`: the next URL is
\* started only when no analysis is in flight.
ConcurrencyLimit == 1

\* faulty variant: unbounded fan-out: every analysis is started at once
NextDispatch_FanOut(n, started, inflight) ==
    IF started = 0 THEN 1..n ELSE {}

NextDispatch(n, started, inflight) ==
    IF inflight = {} /\ started < n THEN {started + 1} ELSE {}

\* store_batch_results(job_id, results)
store_batch_results(store, job_id, results) ==
    [id \in DOMAIN store \cup {job_id} |->
        IF id = job_id THEN results ELSE store[id]]

\* load_batch_results(job_id)
load_batch_results(store, job_id) ==
    IF job_id \in DOMAIN store THEN store[job_id] ELSE <<>>

\* GET /results/{job_id}: get_batch_results reads the store and changes
\* nothing; its answer is 404 when `not results`, else the results (200)
get_batch_results(store, job_id) ==
    LET results == load_batch_results(store, job_id)
    IN  IF results = <<>> THEN 404 ELSE 200

\* faulty variant: the loop catches the crawl's errors only
Caught_CrawlOnly(fault) == fault = "crawl"

\* `except Exception as e` in the loop of process_url_batch: whatever
\* analyze_url raised is caught, and the loop goes on
Caught(fault) == TRUE

\* where the task goes once the loop is over and the results are stored
AfterStore(callback_url) ==
    IF callback_url # None THEN "callback" ELSE "done"

\* faulty variant: a delivery that did not succeed marks the job failed
AfterCallback_FailsJob(delivery) ==
    IF delivery = "success" THEN "done" ELSE "aborted"

\* faulty variant: a failed delivery runs the batch again
AfterCallback_Reruns(delivery) ==
    IF delivery = "failure" THEN "pending" ELSE "done"

\* where the task goes when the awaited send_callback is over: it was the
\* last statement, so the task ends, normally or by the exception it raised
AfterCallback(delivery) ==
    IF delivery = "exception" THEN "raised" ELSE "done"

\* the lifecycle state of a job, read off the position of its task
JobState(t) ==
    CASE t.pc = "pending" -> "PENDING"
      [] t.pc = "running" -> "RUNNING"
      [] t.pc \in {"callback", "done", "raised"} -> "COMPLETED"
      [] OTHER -> "FAILED"

Jobs == 1..Len(tasks)

\* the batches the model explores: one job of up to MaxUrls URLs, or up to
\* MaxJobs jobs of the sizes in ConcurrentBatchSizes
WithinBounds(urls) ==
    /\ Len(tasks) < MaxJobs
    /\ Len(urls) <= MaxUrls
    /\ tasks # <<>> =>
          /\ Len(urls) \in ConcurrentBatchSizes
          /\ \A j \in Jobs : Len(tasks[j].urls) \in ConcurrentBatchSizes

\* ---- fusion: ThreatDetectionModel ----

\* faulty variant: the bands closed at their upper end
get_threat_level_ClosedAbove(score) ==
    IF score <= LowBelow THEN "LOW"
    ELSE IF score <= MediumBelow THEN "MEDIUM"
    ELSE IF score <= HighBelow THEN "HIGH"
    ELSE "CRITICAL"

\* get_threat_level
get_threat_level(score) ==
    IF score < LowBelow THEN "LOW"
    ELSE IF score < MediumBelow THEN "MEDIUM"
    ELSE IF score < HighBelow THEN "HIGH"
    ELSE "CRITICAL"

\* calculate_confidence: 1.0 - np.std(scores) / np.mean(scores).  With n
\* scores of sum S, std / mean = sqrt(n * sum of squares - S * S) / S; for
\* S = 0 numpy divides 0.0 by 0.0 and the result is nan.
calculate_confidence(scores) ==
    LET n == Len(scores)
        S == SumSeq(scores)
        D == n * SumSeq([k \in DOMAIN scores |-> scores[k] * scores[k]]) - S * S
    IN  IF S = 0
        THEN [kind |-> "nan", value |-> 0]
        ELSE [kind |-> "number",
              value |-> ScoreUnit - (ISqrt(D * ScoreUnit * ScoreUnit) \div S)]

\* predict_threat, from the three component scores on
predict_threat(s, w) ==
    LET final_score ==
            w.text * s.text + w.anomaly * s.anomaly + w.rules * s.rules
    IN  [threat_score |-> final_score,
         component_scores |-> s,
         threat_level |-> get_threat_level(final_score),
         confidence |-> calculate_confidence(<<s.text, s.anomaly, s.rules>>)]

\* ---- initial state ----
Init ==
    /\ now = 0
    /\ tasks = <<>>
    /\ batch_results = <<>>
    /\ signals = [text |-> 0, anomaly |-> 0, rules |-> 0]
    /\ weights = [text |-> 5, anomaly |-> 3, rules |-> 2]
    /\ analysis = NoAnalysis

\* the model is constructed with one of the weight configurations and is
\* given the features of one page
FusionInit ==
    /\ now = 0
    /\ tasks = <<>>
    /\ batch_results = <<>>
    /\ signals \in SignalSets
    /\ weights \in WeightConfigs
    /\ analysis = NoAnalysis

\* ---- actions ----

\* POST /analyze/batch: analyze_urls_batch.  generate_job_id reads the
\* clock twice; no reading is earlier than the one before it.
analyze_urls_batch(urls, callback_url) ==
    /\ WithinBounds(urls)
    /\ \E t1 \in now..MaxClock, t2 \in now..MaxClock :
          /\ t1 <= t2
          /\ t2 <= t1 + 1
          /\ now' = t2
          /\ tasks' = Append(tasks,
                [job_id |-> generate_job_id(t1, t2),
                 urls |-> urls,
                 callback_url |-> callback_url,
                 pc |-> "pending",
                 results |-> <<>>,
                 started |-> 0,
                 inflight |-> {},
                 hung |-> FALSE])
    /\ UNCHANGED <<batch_results, fusion>>

\* The task of job j runs on, with no await in between, after the analysis
\* with index i is over (i = 0 when the task starts) and its results list
\* is `results`: either the loop starts the next analysis, or the loop is
\* over, the results are stored and the callback (if any) is started.
Continue(j, i, results) ==
    LET t == tasks[j]
        rest == t.inflight \ {i}
        new == NextDispatch(Len(t.urls), t.started, rest)
    IN  IF rest \cup new # {}
        THEN /\ tasks' = [tasks EXCEPT ![j] =
                    [t EXCEPT !.pc = "running",
                              !.results = results,
                              !.started = t.started + Cardinality(new),
                              !.inflight = rest \cup new]]
             /\ UNCHANGED batch_results
        ELSE /\ tasks' = [tasks EXCEPT ![j] =
                    [t EXCEPT !.pc = AfterStore(t.callback_url),
                              !.results = results,
                              !.inflight = {}]]
             /\ batch_results' =
                    store_batch_results(batch_results, t.job_id, results)

\* the background task starts: process_url_batch up to its first await
process_url_batch(j) ==
    /\ tasks[j].pc = "pending"
    /\ Continue(j, 0, <<>>)
    /\ UNCHANGED <<now, fusion>>

\* the crawl of the URL in flight returns or raises, and the task runs on
\* to its next await
AnalysisDone(j, i, fault) ==
    /\ tasks[j].pc = "running"
    /\ ~tasks[j].hung
    /\ i \in tasks[j].inflight
    /\ IF fault = "none" \/ Caught(fault)
       THEN Continue(j, i, RecordResult(tasks[j].results,
                                       ResultEntry(tasks[j].urls[i], fault)))
       ELSE \* the exception leaves process_url_batch: the task is over
            /\ tasks' = [tasks EXCEPT ![j].pc = "aborted",
                                      ![j].inflight = {}]
            /\ UNCHANGED batch_results
    /\ UNCHANGED <<now, fusion>>

\* the crawl of the URL in flight never returns
CrawlNeverReturns(j) ==
    /\ tasks[j].pc = "running"
    /\ ~tasks[j].hung
    /\ tasks' = [tasks EXCEPT ![j].hung = TRUE]
    /\ UNCHANGED <<now, batch_results, fusion>>

\* await send_callback(...) returns or raises
CallbackDone(j, delivery) ==
    /\ tasks[j].pc = "callback"
    /\ tasks' = [tasks EXCEPT ![j].pc = AfterCallback(delivery)]
    /\ UNCHANGED <<now, batch_results, fusion>>

\* every step of the task of job j
JobStep(j) ==
    \/ process_url_batch(j)
    \/ \E i \in 1..MaxUrls, fault \in Faults : AnalysisDone(j, i, fault)
    \/ \E delivery \in Deliveries : CallbackDone(j, delivery)

Next ==
    \/ \E urls \in SeqsUpTo(Urls, MaxUrls), cb \in CallbackUrls :
          analyze_urls_batch(urls, cb)
    \/ \E j \in Jobs : process_url_batch(j)
    \/ \E j \in Jobs, i \in 1..MaxUrls, fault \in Faults :
          AnalysisDone(j, i, fault)
    \/ \E j \in Jobs : CrawlNeverReturns(j)
    \/ \E j \in Jobs, delivery \in Deliveries : CallbackDone(j, delivery)

Spec == Init /\ [][Next]_vars

\* threat_detector.predict_threat(features)
PredictThreat ==
    /\ analysis = NoAnalysis
    /\ analysis' = predict_threat(signals, weights)
    /\ UNCHANGED <<pipeline, signals, weights>>

FusionNext == PredictThreat

FusionSpec == FusionInit /\ [][FusionNext]_vars

\* ---- properties ----

Completed(t) == JobState(t) = "COMPLETED"

\* the URLs of the entries of a results list, in order
ResultUrls(results) == [k \in DOMAIN results |-> results[k].url]

Verdicts(results) == {k \in DOMAIN results : results[k].kind = "verdict"}
Errors(results) == {k \in DOMAIN results : results[k].kind = "error"}

\* C1: in every reachable state a job is COMPLETED if and only if a result
\* is recorded for every one of its N URLs.
C1_CompletedIffAllRecorded ==
    \A j \in Jobs :
        Completed(tasks[j]) <=> Len(tasks[j].results) = Len(tasks[j].urls)

\* C2: a URL whose analysis failed has an error record as its result, and
\* the failure does not stop the batch: the job is not failed, while it is
\* RUNNING the next URL is being analysed, and once it is COMPLETED every
\* URL has its own result, the URLs that did not fail a verdict.
C2_FailureIsolated ==
    \A j \in Jobs :
        LET t == tasks[j]
        IN  Errors(t.results) # {} =>
              /\ JobState(t) \in {"RUNNING", "COMPLETED"}
              /\ \A k \in DOMAIN t.results :
                    /\ t.results[k].url = t.urls[k]
                    /\ (t.results[k].kind = "error") <=>
                            (t.results[k].error # "none")
              /\ JobState(t) = "RUNNING" =>
                    t.inflight = {Len(t.results) + 1}
              /\ Completed(t) => Len(t.results) = Len(t.urls)

\* a batch of 3 URLs, 1 crawl failed: COMPLETED, 2 verdicts, 1 error record
C2_Witness ==
    \E j \in Jobs :
        LET t == tasks[j]
        IN  /\ Completed(t)
            /\ Len(t.urls) = 3
            /\ Cardinality(Verdicts(t.results)) = 2
            /\ \E k \in Errors(t.results) : t.results[k].error = "crawl"

\* C3: the final results of a job with N URLs hold exactly N entries, and
\* every URL has as many entries as the submission names it.
C3_EachUrlOnce ==
    \A j \in Jobs :
        LET t == tasks[j]
        IN  Completed(t) =>
              /\ Len(t.results) = Len(t.urls)
              /\ \A u \in Urls :
                    Count(ResultUrls(t.results), u) = Count(t.urls, u)

C3_Witness ==
    \E j \in Jobs :
        LET t == tasks[j]
        IN  /\ Completed(t)
            /\ Len(t.urls) = 3
            /\ \A u \in Urls : Count(ResultUrls(t.results), u) >= 1

\* C4: fetching a job by an id a submission returned never answers NotFound,
\* also while the job is RUNNING.
C4_IssuedIdIsFound ==
    \A j \in Jobs : get_batch_results(batch_results, tasks[j].job_id) = 200

\* C5: at every moment the analyses of one job that are in flight are at
\* most the concurrency limit.
C5_BoundedInFlight ==
    \A j \in Jobs : Cardinality(tasks[j].inflight) <= ConcurrencyLimit

\* an analysis in flight while further URLs of the job wait their turn
C5_Witness ==
    \E j \in Jobs :
        /\ Cardinality(tasks[j].inflight) = ConcurrencyLimit
        /\ tasks[j].started + 2 <= Len(tasks[j].urls)

\* C6: a job whose crawl never returns still completes: as long as a job is
\* not COMPLETED, a step of its task (a timeout at the latest) can happen.
C6_NeverStuck ==
    \A j \in Jobs : Completed(tasks[j]) \/ ENABLED JobStep(j)

\* C7: a failure of the storage write alone does not fail the analysis: no
\* result is an error record caused by the storage write.
C7_PersistenceFailureKeepsVerdict ==
    \A j \in Jobs :
        \A k \in DOMAIN tasks[j].results :
            tasks[j].results[k].error # "store"

\* C8: while the callback of a job is being delivered the job is COMPLETED
\* with all its results recorded and stored, and the end of the delivery,
\* however it ends, changes neither the job's state nor any result.
C8_CallbackAfterCompletion ==
    [][\A j \in Jobs :
         LET t == tasks[j]
         IN  t.pc = "callback" =>
               /\ Completed(t)
               /\ Len(t.results) = Len(t.urls)
               /\ t.job_id \in DOMAIN batch_results
               /\ tasks'[j].pc # "callback" =>
                     /\ JobState(tasks'[j]) = JobState(t)
                     /\ tasks'[j].results = t.results
                     /\ batch_results' = batch_results]_vars

\* a delivery ended by an exception, after a batch with a result
C8_Witness ==
    \E j \in Jobs : tasks[j].pc = "raised" /\ tasks[j].results # <<>>

Rank(state) ==
    CASE state = "PENDING" -> 0
      [] state = "RUNNING" -> 1
      [] state = "COMPLETED" -> 2
      [] OTHER -> -1

\* C9: a job is PENDING before any analysis is dispatched, its state only
\* goes forward along PENDING, RUNNING, COMPLETED, and it is never failed.
C9_ForwardOnly ==
    [][\A j \in Jobs :
         /\ JobState(tasks[j]) = "PENDING" =>
               tasks[j].started = 0 /\ tasks[j].inflight = {}
         /\ Rank(JobState(tasks[j])) >= 0
         /\ Rank(JobState(tasks'[j])) >= Rank(JobState(tasks[j]))]_vars

\* a COMPLETED job of 2 or more URLs, every one of them an error record
C9_Witness ==
    \E j \in Jobs :
        /\ Completed(tasks[j])
        /\ Len(tasks[j].urls) >= 2
        /\ Verdicts(tasks[j].results) = {}

\* C10: any two submissions receive different job ids.
C10_JobIdsDistinct ==
    \A i, j \in Jobs : i # j => tasks[i].job_id # tasks[j].job_id

\* C11: a submission with no URLs is rejected: no job id is issued and no
\* job exists for an empty batch.
C11_NoJobForEmptyBatch ==
    \A j \in Jobs : tasks[j].urls # <<>>

\* ---- properties of the fusion, under FusionSpec ----

Predicted == analysis # NoAnalysis

\* C12: for component scores in [0,1] and any weights, the fused score of
\* the verdict is in [0,1].
C12_ScoreInUnitInterval ==
    Predicted =>
        0 <= analysis.threat_score /\ analysis.threat_score <= ScoreUnit

\* C13: for component scores in [0,1] the confidence of the verdict, when
\* it is a number, is in [0,1]: it is never negative.
C13_ConfidenceInUnitInterval ==
    (Predicted /\ analysis.confidence.kind = "number") =>
        /\ 0 <= analysis.confidence.value
        /\ analysis.confidence.value <= ScoreUnit

\* C14: when the three component scores are all zero the confidence is
\* exactly 1.0, whatever the weights.
C14_ZeroScoresFullConfidence ==
    (Predicted /\ signals = [text |-> 0, anomaly |-> 0, rules |-> 0]) =>
        analysis.confidence = [kind |-> "number", value |-> ScoreUnit]

\* the bands of the claim: below 0.2 LOW, [0.2, 0.5) MEDIUM, [0.5, 0.8)
\* HIGH, 0.8 and above CRITICAL
LevelInBand ==
    Predicted =>
        LET score == analysis.threat_score
            level == analysis.threat_level
        IN  /\ level \in {"LOW", "MEDIUM", "HIGH", "CRITICAL"}
            /\ level = "LOW" <=> 5 * score < ScoreUnit
            /\ level = "MEDIUM" <=>
                    (5 * score >= ScoreUnit /\ 2 * score < ScoreUnit)
            /\ level = "HIGH" <=>
                    (2 * score >= ScoreUnit /\ 5 * score < 4 * ScoreUnit)
            /\ level = "CRITICAL" <=> 5 * score >= 4 * ScoreUnit

\* the weighted example: weights 0.5/0.3/0.2, signals 0.8/0.4/0.1
IsExample ==
    /\ Predicted
    /\ weights = [text |-> 5, anomaly |-> 3, rules |-> 2]
    /\ signals = [text |-> 8, anomaly |-> 4, rules |-> 1]

\* C15 as stated: the level follows the half-open bands, and the weighted
\* example has score 0.42 and level MEDIUM.
C15_LevelBandsExampleMedium ==
    /\ LevelInBand
    /\ IsExample =>
          /\ 100 * analysis.threat_score = 42 * ScoreUnit
          /\ analysis.threat_level = "MEDIUM"

\* C15 as amended: the level follows the half-open bands (0.2 is MEDIUM,
\* 0.8 is CRITICAL), and the weighted example has score 0.54 and level HIGH.
C15_LevelBandsExampleHigh ==
    /\ LevelInBand
    /\ IsExample =>
          /\ 100 * analysis.threat_score = 54 * ScoreUnit
          /\ analysis.threat_level = "HIGH"

\* the weighted example has been scored
C15_Witness == IsExample

====
